---- MODULE Spec2Model ----
(***************************************************************************)
(* Popover-edit table directives                                           *)
(* (src/src/cdk-experimental/popover-edit/popover-edit-module.ts).         *)
(*                                                                         *)
(* Modelled objects:                                                       *)
(*   pe        one CdkPopoverEdit directive on cell `ownIndex` of row 0,   *)
(*             together with the OverlayRef / FocusTrap it owns and the    *)
(*             document's active element;                                  *)
(*   hover     one CdkRowHoverContent directive;                           *)
(*   editable  the CdkEditable directive on the table;                     *)
(*   emitted   what the last step published on the dispatcher's subjects;  *)
(*   click     the click event last handed to CdkEditOpen.openEdit;        *)
(*   lastOp    the last operation and its input.                           *)
(*                                                                         *)
(* The EditEventDispatcher is the environment: the model records what the  *)
(* directives publish to it and lets it deliver any notification.          *)
(***************************************************************************)
EXTENDS Integers, Sequences, FiniteSets

VARIABLES rowLen, ownIndex, pe, hover, editable, emitted, click, lastOp

vars == <<rowLen, ownIndex, pe, hover, editable, emitted, click, lastOp>>

(* ---------------------------------------------------------------- bounds *)

\* Largest number of cells in a table row.
MaxCells == 3

\* Largest colspan.before / colspan.after value set through the input.
MaxSpan == 2

\* Number of rows of the table.
NumRows == 2

(* ------------------------------------------------------------------- DOM *)

NullEl == <<"null">>
Body == <<"body">>
Table == <<"table">>
Caption == <<"caption">>
Row(r) == <<"row", r>>
Cell(r, k) == <<"cell", r, k>>
Inner(r, k) == <<"inner", r, k>>
Pane(o) == <<"pane", o>>
PaneContent(o) == <<"panecontent", o>>

\* Overlay pane 0 belongs to the modelled CdkPopoverEdit, pane 1 to another cell.
OwnPane == 0
OtherPane == 1

Rows == 0 .. (NumRows - 1)

TableElements ==
  {Table, Caption}
    \cup {Row(r) : r \in Rows}
    \cup {Cell(r, k) : r \in Rows, k \in 0 .. (rowLen - 1)}
    \cup {Inner(r, k) : r \in Rows, k \in 0 .. (rowLen - 1)}

Parent(e) ==
  CASE e[1] = "inner" -> Cell(e[2], e[3])
    [] e[1] = "cell" -> Row(e[2])
    [] e[1] = "row" -> Table
    [] e[1] = "caption" -> Table
    [] e[1] = "table" -> Body
    [] e[1] = "panecontent" -> Pane(e[2])
    [] e[1] = "pane" -> Body
    [] OTHER -> NullEl

CELL_SELECTOR == "cell"
ROW_SELECTOR == "row"
EDIT_PANE_SELECTOR == "pane"

Matches(e, selector) == e[1] = selector

\* Element.closest: the element itself or its nearest ancestor matching the selector.
RECURSIVE closest(_, _)
closest(e, selector) ==
  IF e = NullEl THEN NullEl
  ELSE IF Matches(e, selector) THEN e
  ELSE closest(Parent(e), selector)

(* ----------------------------------------------------------- CdkPopoverEdit *)

\* The element carrying the cdkPopoverEdit directive.
PopoverElement == Cell(0, ownIndex)

Colspans ==
  UNION {[S -> 0 .. MaxSpan] : S \in SUBSET {"before", "after"}}

\* this._colspan.before / .after ; 0 stands for both `undefined || 0` and 0.
OrZero(c, f) == IF f \in DOMAIN c THEN c[f] ELSE 0

\* Array.prototype.slice on the index list 0 .. n-1.
Slice(n, start, end) ==
  LET from == IF start < 0 THEN (IF n + start < 0 THEN 0 ELSE n + start)
              ELSE (IF start > n THEN n ELSE start)
      to == IF end < 0 THEN (IF n + end < 0 THEN 0 ELSE n + end)
            ELSE (IF end > n THEN n ELSE end)
  IN [j \in 1 .. (IF to > from THEN to - from ELSE 0) |-> from + j - 1]

\* getOverlayCells with the slice's end index one too small.
getOverlayCells_EndOffByOne(p) ==
  IF OrZero(p.colspan, "before") = 0 /\ OrZero(p.colspan, "after") = 0
  THEN <<ownIndex>>
  ELSE Slice(rowLen,
             ownIndex - OrZero(p.colspan, "before"),
             ownIndex + OrZero(p.colspan, "after"))

\* The indices, within the row, of the cells the overlay spans.
getOverlayCells(p) ==
  IF OrZero(p.colspan, "before") = 0 /\ OrZero(p.colspan, "after") = 0
  THEN <<ownIndex>>
  ELSE Slice(rowLen,
             ownIndex - OrZero(p.colspan, "before"),
             ownIndex + OrZero(p.colspan, "after") + 1)

getPositionStrategy(p) == <<getOverlayCells(p)>>

Log(p, c) == [p EXCEPT !.calls = Append(@, c)]

updateOverlaySize(p) ==
  [Log(p, "updateSize") EXCEPT !.size = <<getOverlayCells(p)>>]

\* EmitDetachments without takeUntil(detachments) on the size subscription.
EmitDetachments_KeepSizeSub(p) ==
  [p EXCEPT !.calls = @ \o [i \in 1 .. p.detachListeners |-> "doneEditingCell"]]

\* OverlayRef.detachments() emits: the listener registered in _createEditOverlay
\* calls doneEditingCell, and takeUntil ends the size-update subscription.
EmitDetachments(p) ==
  [p EXCEPT !.calls = @ \o [i \in 1 .. p.detachListeners |-> "doneEditingCell"],
            !.sizeSubs = 0]

FocusInOwnPane(p) == closest(p.activeElement, EDIT_PANE_SELECTOR) = Pane(OwnPane)

\* The pane's content leaves the document: a focused element inside it blurs.
RemoveContent(p) ==
  [p EXCEPT !.attached = FALSE,
            !.activeElement = IF FocusInOwnPane(p) THEN Body ELSE @]

OverlayDetach(p) ==
  IF ~p.attached THEN Log(p, "detach")
  ELSE EmitDetachments(RemoveContent(Log(p, "detach")))

OverlayDispose(p) ==
  LET q == [RemoveContent(Log(p, "dispose")) EXCEPT !.disposed = TRUE]
      r == IF p.attached THEN EmitDetachments(q) ELSE q
  IN [r EXCEPT !.detachListeners = 0]

createEditOverlay(p) ==
  [Log(Log(p, "create"), "focusTrap.create") EXCEPT
     !.overlayRef = TRUE,
     !.created = @ + 1,
     !.position = getPositionStrategy(p),
     !.focusTrap = TRUE,
     !.detachListeners = @ + 1]

Threw(p) == \E i \in 1 .. Len(p.calls) : p.calls[i] = "throw"

\* showEditOverlay without the focus trap call.
showEditOverlay_NoFocus(p) ==
  IF p.attached \/ p.disposed
  THEN Log(Log(p, "attach"), "throw")
  ELSE updateOverlaySize(
         [Log(p, "attach") EXCEPT !.attached = TRUE, !.sizeSubs = @ + 1])

\* showEditOverlay subscribing to detachments() again on every show.
showEditOverlay_Relisten(p) ==
  IF p.attached \/ p.disposed
  THEN Log(Log(p, "attach"), "throw")
  ELSE updateOverlaySize(
         [Log(Log(p, "attach"), "focusInitialElementWhenReady") EXCEPT
            !.attached = TRUE,
            !.sizeSubs = @ + 1,
            !.detachListeners = @ + 1])

\* OverlayRef.attach throws when a portal is already attached or the overlay has
\* been disposed; the rest of _showEditOverlay is then skipped.
showEditOverlay(p) ==
  IF p.attached \/ p.disposed
  THEN Log(Log(p, "attach"), "throw")
  ELSE updateOverlaySize(
         [Log(Log(p, "attach"), "focusInitialElementWhenReady") EXCEPT
            !.attached = TRUE,
            !.sizeSubs = @ + 1])

maybeReturnFocusToCell(p) ==
  IF FocusInOwnPane(p)
  THEN [Log(p, "focusCell") EXCEPT !.activeElement = PopoverElement]
  ELSE p

\* The subscriber without the `&& this.template` guard.
OnEditingCell_IgnoreTemplate(p, open) ==
  IF open
  THEN showEditOverlay(IF ~p.overlayRef THEN createEditOverlay(p) ELSE p)
  ELSE IF p.overlayRef
  THEN OverlayDetach(maybeReturnFocusToCell(p))
  ELSE p

\* The subscriber detaching before it decides about the focus.
OnEditingCell_DetachFirst(p, open) ==
  IF open /\ p.template
  THEN showEditOverlay(IF ~p.overlayRef THEN createEditOverlay(p) ELSE p)
  ELSE IF p.overlayRef
  THEN maybeReturnFocusToCell(OverlayDetach(p))
  ELSE p

\* The subscriber of editingCell(...) in _startListeningToEditEvents.
OnEditingCell(p, open) ==
  IF open /\ p.template
  THEN showEditOverlay(IF ~p.overlayRef THEN createEditOverlay(p) ELSE p)
  ELSE IF p.overlayRef
  THEN OverlayDetach(maybeReturnFocusToCell(p))
  ELSE p

\* The setter resizing whether or not the overlay is attached.
SetColspanValue_AlwaysResize(p, value) ==
  LET q == [p EXCEPT !.colspan = value]
  IN IF q.overlayRef
     THEN updateOverlaySize([Log(q, "updatePositionStrategy") EXCEPT
                               !.position = getPositionStrategy(q)])
     ELSE q

\* set colspan(value)
SetColspanValue(p, value) ==
  LET q == [p EXCEPT !.colspan = value]
  IN IF q.overlayRef
     THEN LET r == [Log(q, "updatePositionStrategy") EXCEPT
                      !.position = getPositionStrategy(q)]
          IN IF r.attached THEN updateOverlaySize(r) ELSE r
     ELSE q

Fresh(p) == [p EXCEPT !.calls = <<>>]

Op(name, arg) == [op |-> name, arg |-> arg]

PopoverInit ==
  [viewInit |-> FALSE, destroyed |-> FALSE, editSub |-> FALSE,
   template |-> FALSE, colspan |-> [f \in {} |-> 0],
   overlayRef |-> FALSE, focusTrap |-> FALSE,
   attached |-> FALSE, disposed |-> FALSE,
   position |-> <<>>, size |-> <<>>,
   sizeSubs |-> 0, detachListeners |-> 0, created |-> 0,
   activeElement |-> Body, calls |-> <<>>]

\* ngOnDestroy without takeUntil(destroyed) on the editingCell subscription.
PopoverDestroy_KeepListening(p) ==
  LET q == [p EXCEPT !.destroyed = TRUE, !.sizeSubs = 0]
  IN IF q.overlayRef THEN OverlayDispose(q) ELSE q

\* CdkPopoverEdit.ngOnDestroy: destroyed.next() ends both takeUntil(destroyed)
\* subscriptions, then the overlay, if any, is disposed.
PopoverDestroy(p) ==
  LET q == [p EXCEPT !.destroyed = TRUE, !.editSub = FALSE, !.sizeSubs = 0]
  IN IF q.overlayRef THEN OverlayDispose(q) ELSE q

\* One emission of merge(scrollDispatcher.scrolled(), viewportRuler.change()).
RECURSIVE RunSizeSubs(_, _)
RunSizeSubs(p, n) == IF n = 0 THEN p ELSE RunSizeSubs(updateOverlaySize(p), n - 1)

OnScrollOrResize(p) == RunSizeSubs(p, p.sizeSubs)

\* openEdit without evt.stopPropagation().
openEdit_NoStop(el, evt) ==
  [emitted |-> <<<<"editing", closest(el, CELL_SELECTOR)>>>>, evt |-> evt]

\* CdkEditOpen.openEdit(evt) on the directive element el.
openEdit(el, evt) ==
  [emitted |-> <<<<"editing", closest(el, CELL_SELECTOR)>>>>,
   evt |-> [evt EXCEPT !.propagationStopped = TRUE]]

NoEvent == [type |-> "none", target |-> NullEl, key |-> "", propagationStopped |-> FALSE]

ClickOn(el) == [type |-> "click", target |-> el, key |-> "", propagationStopped |-> FALSE]

\* Elements that carry a cdkEditOpen directive.
OpenElements ==
  {Caption}
    \cup {Cell(r, k) : r \in Rows, k \in 0 .. (rowLen - 1)}
    \cup {Inner(r, k) : r \in Rows, k \in 0 .. (rowLen - 1)}

\* Where the document's focus can go while the pane's content is (not) shown.
FocusTargets(p) ==
  {Body, PopoverElement, PaneContent(OtherPane)}
    \cup (IF p.attached THEN {PaneContent(OwnPane)} ELSE {})

(* -------------------------------------------------------------- CdkEditable *)

Keys == {"Enter", "Escape"}

\* DOM events that reach the listeners on the table element.
TableEvents ==
  {[type |-> t, target |-> el, key |-> "", propagationStopped |-> FALSE] :
     t \in {"mouseover"}, el \in TableElements}
    \cup {[type |-> "mouseleave", target |-> Table, key |-> "",
           propagationStopped |-> FALSE]}
    \cup {[type |-> t, target |-> el, key |-> k, propagationStopped |-> FALSE] :
            t \in {"keyup", "keydown"}, el \in TableElements, k \in Keys}

\* Nothing has been sent to a subject yet.
Unset == <<"unset">>

EditableInit ==
  [viewInit |-> FALSE, destroyed |-> FALSE, listening |-> FALSE,
   pendingMove |-> NoEvent, sinceMove |-> 0,
   hovering |-> Unset, lastMouse |-> "none"]

\* The delay between the mouse stopping and the on-hover content showing (ms).
DEFAULT_MOUSE_MOVE_DELAY_MS == 30

\* Milliseconds that pass in one step of the clock.
TickMs == 10

MouseMoveEvents ==
  {[type |-> "mousemove", target |-> el, key |-> "", propagationStopped |-> FALSE] :
     el \in TableElements}

\* debounceTime receives a mousemove: it replaces the held event and restarts
\* the timer.
OnMouseMove(e, evt) ==
  IF ~e.listening THEN e
  ELSE [e EXCEPT !.pendingMove = evt, !.sinceMove = 0]

\* A debounce timer that is due as soon as an event is held.
DebounceDue_NoDelay(e) == e.pendingMove # NoEvent

\* The timer set by debounceTime(DEFAULT_MOUSE_MOVE_DELAY_MS) has run out.
DebounceDue(e) ==
  e.pendingMove # NoEvent /\ e.sinceMove >= DEFAULT_MOUSE_MOVE_DELAY_MS

\* debounceTime emits the held event: toClosest(ROW_SELECTOR) maps it and the
\* result goes to the dispatcher's mouseMove subject.
FlushMouseMove(e) ==
  IF e.pendingMove = NoEvent THEN <<>>
  ELSE <<<<"mouseMove", closest(e.pendingMove.target, ROW_SELECTOR)>>>>

ClearMouseMove(e) == [e EXCEPT !.pendingMove = NoEvent, !.sinceMove = 0]

\* CdkEditable.ngOnDestroy: destroyed.next() completes every takeUntil; on
\* completion debounceTime emits the event it still holds.
EditableDestroy(e) ==
  [ClearMouseMove(e) EXCEPT !.destroyed = TRUE, !.listening = FALSE]

\* The keyup pipeline without filter(event => event.key === 'Enter').
OnTableEvent_NoKeyFilter(e, evt) ==
  IF ~e.listening THEN <<>>
  ELSE CASE evt.type = "mouseover" ->
              <<<<"hovering", closest(evt.target, ROW_SELECTOR)>>>>
         [] evt.type = "mouseleave" -> <<<<"hovering", NullEl>>>>
         [] evt.type = "keyup" ->
              <<<<"editing", closest(evt.target, CELL_SELECTOR)>>>>
         [] evt.type = "keydown" -> <<<<"keyObserver", evt>>>>
         [] OTHER -> <<>>

\* The listeners without the mouseleave subscription.
OnTableEvent_NoMouseLeave(e, evt) ==
  IF ~e.listening THEN <<>>
  ELSE CASE evt.type = "mouseover" ->
              <<<<"hovering", closest(evt.target, ROW_SELECTOR)>>>>
         [] evt.type = "keyup" ->
              IF evt.key = "Enter"
              THEN <<<<"editing", closest(evt.target, CELL_SELECTOR)>>>>
              ELSE <<>>
         [] evt.type = "keydown" -> <<<<"keyObserver", evt>>>>
         [] OTHER -> <<>>

\* What the subscriptions set up by _listenForTableEvents publish for one event.
OnTableEvent(e, evt) ==
  IF ~e.listening THEN <<>>
  ELSE CASE evt.type = "mouseover" ->
              <<<<"hovering", closest(evt.target, ROW_SELECTOR)>>>>
         [] evt.type = "mouseleave" -> <<<<"hovering", NullEl>>>>
         [] evt.type = "keyup" ->
              IF evt.key = "Enter"
              THEN <<<<"editing", closest(evt.target, CELL_SELECTOR)>>>>
              ELSE <<>>
         [] evt.type = "keydown" -> <<<<"keyObserver", evt>>>>
         [] OTHER -> <<>>

\* The value the hovering subject received last, after `out` was published.
RECURSIVE HoveringAfter(_, _)
HoveringAfter(prev, out) ==
  IF out = <<>> THEN prev
  ELSE HoveringAfter(IF Head(out)[1] = "hovering" THEN Head(out)[2] ELSE prev,
                     Tail(out))

\* The table after its listeners have handled evt: the last value sent to
\* hovering, and the last mouseover / mouseleave that reached a listener.
AfterTableEvent(e, evt) ==
  [e EXCEPT
     !.hovering = HoveringAfter(@, OnTableEvent(e, evt)),
     !.lastMouse = IF e.listening /\ evt.type \in {"mouseover", "mouseleave"}
                   THEN evt.type ELSE @]

(* ------------------------------------------------------- CdkRowHoverContent *)

\* Largest number of entries the view container may hold for the hover view.
MaxEntries == 3

HoverInit ==
  [viewInit |-> FALSE, destroyed |-> FALSE, hoverSub |-> FALSE,
   viewRef |-> FALSE, viewDestroyed |-> FALSE,
   entries |-> 0, rendered |-> FALSE, created |-> 0, calls |-> <<>>]

\* ViewContainerRef.insert of a view the container already holds: the container
\* either moves the view (one entry) or registers it a second time (dup),
\* depending on the view engine; the view's nodes stay in the document.
ContainerInsert(h, dup) ==
  [Log(h, "insert") EXCEPT
     !.entries = IF @ = 0 \/ dup THEN @ + 1 ELSE @,
     !.rendered = TRUE]

\* ViewContainerRef.detach(indexOf(viewRef)): removes one entry and the view's
\* nodes; with index -1 on a container that does not hold the view, nothing.
ContainerDetach(h) ==
  IF h.entries = 0 THEN Log(h, "detach")
  ELSE [Log(h, "detach") EXCEPT !.entries = @ - 1, !.rendered = FALSE]

\* The subscriber of hoveringOnRow(...) in _listenForHoverEvents.
OnHoveringOnRow(h, isHovering, dup) ==
  IF isHovering
  THEN IF ~h.viewRef
       THEN [Log(h, "createEmbeddedView") EXCEPT
               !.viewRef = TRUE, !.created = @ + 1,
               !.entries = @ + 1, !.rendered = TRUE]
       ELSE ContainerInsert(h, dup)
  ELSE IF h.viewRef THEN ContainerDetach(h)
  ELSE h

\* CdkRowHoverContent.ngOnDestroy
HoverDestroy(h) ==
  LET q == [h EXCEPT !.destroyed = TRUE, !.hoverSub = FALSE]
  IN IF q.viewRef
     THEN [Log(q, "destroy") EXCEPT
             !.viewDestroyed = TRUE, !.rendered = FALSE,
             !.entries = IF @ = 0 THEN 0 ELSE @ - 1]
     ELSE q

(* ------------------------------------------------------------------ actions *)

Init ==
  /\ rowLen \in 1 .. MaxCells
  /\ ownIndex \in 0 .. (rowLen - 1)
  /\ pe = PopoverInit
  /\ hover = HoverInit
  /\ editable = EditableInit
  /\ emitted = <<>>
  /\ click = NoEvent
  /\ lastOp = Op("init", 0)

PopoverStep(name, arg, q) ==
  /\ pe' = q
  /\ lastOp' = Op(name, arg)
  /\ emitted' = <<>>
  /\ click' = NoEvent
  /\ UNCHANGED <<rowLen, ownIndex, hover, editable>>

PopoverNgAfterViewInit ==
  /\ ~pe.viewInit /\ ~pe.destroyed
  /\ PopoverStep("ngAfterViewInit", 0,
                 [Fresh(pe) EXCEPT !.viewInit = TRUE, !.editSub = TRUE])

PopoverNgOnDestroy ==
  /\ pe.viewInit /\ ~pe.destroyed
  /\ PopoverStep("ngOnDestroy", 0, PopoverDestroy(Fresh(pe)))

EditingCellNotify ==
  \E open \in BOOLEAN :
    /\ pe.editSub
    /\ LET q == OnEditingCell(Fresh(pe), open)
       IN \E keep \in (IF Threw(q) THEN BOOLEAN ELSE {TRUE}) :
            PopoverStep("editingCell", open, [q EXCEPT !.editSub = keep])

\* The dispatcher emits after the directive's subscription has ended
\* (takeUntil(destroyed), or an error thrown by the subscriber): nothing runs.
EditingCellUnheard ==
  \E open \in BOOLEAN :
    /\ pe.viewInit /\ ~pe.editSub
    /\ PopoverStep("editingCellUnheard", open, Fresh(pe))

SetColspan ==
  \E value \in Colspans :
    /\ ~pe.destroyed
    /\ PopoverStep("colspan", value, SetColspanValue(Fresh(pe), value))

SetTemplate ==
  \E t \in BOOLEAN :
    /\ ~pe.destroyed
    /\ t # pe.template
    /\ PopoverStep("template", t, [Fresh(pe) EXCEPT !.template = t])

ScrollOrResize ==
  PopoverStep("scroll", 0, OnScrollOrResize(Fresh(pe)))

\* disposeOnNavigation: the overlay service disposes the overlay on a location change.
Navigate ==
  /\ pe.overlayRef /\ ~pe.disposed
  /\ PopoverStep("navigate", 0, OverlayDispose(Fresh(pe)))

\* The user, or the focus trap once the zone is stable, moves the focus.
FocusMoves ==
  \E el \in FocusTargets(pe) :
    /\ el # pe.activeElement
    /\ PopoverStep("focus", el, [Fresh(pe) EXCEPT !.activeElement = el])

OpenEditClick ==
  \E el \in OpenElements :
    LET r == openEdit(el, ClickOn(el))
    IN /\ emitted' = r.emitted
       /\ click' = r.evt
       /\ pe' = Fresh(pe)
       /\ lastOp' = Op("openEdit", el)
       /\ UNCHANGED <<rowLen, ownIndex, hover, editable>>

Next ==
  \/ PopoverNgAfterViewInit
  \/ PopoverNgOnDestroy
  \/ EditingCellNotify
  \/ EditingCellUnheard
  \/ SetColspan
  \/ SetTemplate
  \/ ScrollOrResize
  \/ Navigate
  \/ FocusMoves

Spec == Init /\ [][Next]_vars

TableNgAfterViewInit ==
  /\ ~editable.viewInit /\ ~editable.destroyed
  /\ editable' = [editable EXCEPT !.viewInit = TRUE, !.listening = TRUE]
  /\ emitted' = <<>>
  /\ lastOp' = Op("tableNgAfterViewInit", 0)
  /\ pe' = Fresh(pe)
  /\ hover' = Fresh(hover)
  /\ click' = NoEvent
  /\ UNCHANGED <<rowLen, ownIndex>>

TableNgOnDestroy ==
  /\ editable.viewInit /\ ~editable.destroyed
  /\ editable' = EditableDestroy(editable)
  /\ emitted' = FlushMouseMove(editable)
  /\ lastOp' = Op("tableNgOnDestroy", 0)
  /\ pe' = Fresh(pe)
  /\ hover' = Fresh(hover)
  /\ click' = NoEvent
  /\ UNCHANGED <<rowLen, ownIndex>>

\* An event of one of the given types reaches the listeners on the table.
TableEventOf(types) ==
  \E evt \in {e \in TableEvents : e.type \in types} :
    /\ emitted' = OnTableEvent(editable, evt)
    /\ lastOp' = Op("tableEvent", evt)
    /\ pe' = Fresh(pe)
    /\ hover' = Fresh(hover)
    /\ click' = NoEvent
    /\ editable' = AfterTableEvent(editable, evt)
    /\ UNCHANGED <<rowLen, ownIndex>>

TableEvent == TableEventOf({"mouseover", "mouseleave", "keyup", "keydown"})

TableMouseEvent == TableEventOf({"mouseover", "mouseleave"})

TableKeyEvent == TableEventOf({"keyup", "keydown"})

TableStep(name, arg, e, out) ==
  /\ editable' = e
  /\ emitted' = out
  /\ lastOp' = Op(name, arg)
  /\ pe' = Fresh(pe)
  /\ hover' = Fresh(hover)
  /\ click' = NoEvent
  /\ UNCHANGED <<rowLen, ownIndex>>

MouseMove ==
  \E evt \in MouseMoveEvents :
    TableStep("mousemove", evt, OnMouseMove(editable, evt), <<>>)

\* Time passes while debounceTime holds an event.
Tick ==
  /\ editable.pendingMove # NoEvent
  /\ editable.sinceMove < DEFAULT_MOUSE_MOVE_DELAY_MS
  /\ TableStep("tick", 0, [editable EXCEPT !.sinceMove = @ + TickMs], <<>>)

\* The debounce timer's callback runs (at, or some time after, its due time).
DebounceTimer ==
  /\ DebounceDue(editable)
  /\ TableStep("debounce", 0, ClearMouseMove(editable), FlushMouseMove(editable))

\* The table's mouse events with the passing of time.
NextMove ==
  \/ TableNgAfterViewInit
  \/ TableNgOnDestroy
  \/ TableMouseEvent
  \/ MouseMove
  \/ Tick
  \/ DebounceTimer

SpecMove == Init /\ [][NextMove]_vars

\* The table's delegated events and the open buttons, next to a popover whose
\* overlay is created, shown, hidden and destroyed.
NextTable ==
  \/ TableNgAfterViewInit
  \/ TableNgOnDestroy
  \/ TableKeyEvent
  \/ OpenEditClick
  \/ PopoverNgAfterViewInit
  \/ PopoverNgOnDestroy
  \/ EditingCellNotify
  \/ SetTemplate

SpecTable == Init /\ [][NextTable]_vars

HoverStep(name, arg, h) ==
  /\ hover' = h
  /\ lastOp' = Op(name, arg)
  /\ emitted' = <<>>
  /\ UNCHANGED <<rowLen, ownIndex, pe, editable, click>>

HoverNgAfterViewInit ==
  /\ ~hover.viewInit /\ ~hover.destroyed
  /\ HoverStep("hoverNgAfterViewInit", 0,
               [Fresh(hover) EXCEPT !.viewInit = TRUE, !.hoverSub = TRUE])

HoverNgOnDestroy ==
  /\ hover.viewInit /\ ~hover.destroyed
  /\ HoverStep("hoverNgOnDestroy", 0, HoverDestroy(Fresh(hover)))

HoveringOnRowNotify ==
  \E isHovering \in BOOLEAN :
    /\ hover.hoverSub
    /\ \E dup \in (IF isHovering /\ hover.entries > 0 THEN BOOLEAN ELSE {FALSE}) :
         /\ dup => hover.entries < MaxEntries
         /\ HoverStep("hoveringOnRow", isHovering,
                      OnHoveringOnRow(Fresh(hover), isHovering, dup))

\* The hover content of a row, next to the table's delegated events.
NextHover ==
  \/ HoverNgAfterViewInit
  \/ HoverNgOnDestroy
  \/ HoveringOnRowNotify
  \/ TableNgAfterViewInit
  \/ TableNgOnDestroy
  \/ TableMouseEvent

SpecHover == Init /\ [][NextHover]_vars

(* ------------------------------------------------------------ properties *)

Has(calls, c) == \E i \in 1 .. Len(calls) : calls[i] = c

Count(calls, c) == Cardinality({i \in 1 .. Len(calls) : calls[i] = c})

Before(calls, c, d) ==
  \E i, j \in 1 .. Len(calls) : i < j /\ calls[i] = c /\ calls[j] = d

\* The cell an element lies in (itself for a cell), or NullEl.
EnclosingCell(el) ==
  IF el[1] \in {"cell", "inner"} THEN <<"cell", el[2], el[3]>> ELSE NullEl

\* C1: every click handled by openEdit publishes the directive element's
\* enclosing cell exactly once on `editing` and stops the click's propagation,
\* whatever the state of the popover.
C1_OpenEditPublishes ==
  lastOp.op = "openEdit" =>
    /\ emitted = <<<<"editing", EnclosingCell(lastOp.arg)>>>>
    /\ click.type = "click"
    /\ click.target = lastOp.arg
    /\ click.propagationStopped

C1_Witness ==
  /\ lastOp.op = "openEdit"
  /\ lastOp.arg = Inner(0, ownIndex)
  /\ pe.attached
  /\ emitted = <<<<"editing", PopoverElement>>>>
  /\ click.propagationStopped

\* C4: while CdkEditable listens, a keyup with key Enter publishes the target's
\* closest cell on `editing`, a keyup with another key publishes nothing, and
\* every keydown is forwarded to the focus dispatcher's keyObserver.
C4_KeyEvents ==
  (lastOp.op = "tableEvent" /\ editable.listening) =>
    /\ (lastOp.arg.type = "keyup" /\ lastOp.arg.key = "Enter") =>
         emitted = <<<<"editing", EnclosingCell(lastOp.arg.target)>>>>
    /\ (lastOp.arg.type = "keyup" /\ lastOp.arg.key # "Enter") => emitted = <<>>
    /\ lastOp.arg.type = "keydown" => emitted = <<<<"keyObserver", lastOp.arg>>>>

C4_Witness ==
  /\ lastOp.op = "tableEvent"
  /\ editable.listening
  /\ lastOp.arg.type = "keyup"
  /\ lastOp.arg.key = "Enter"
  /\ lastOp.arg.target = Inner(1, 0)
  /\ emitted = <<<<"editing", Cell(1, 0)>>>>

\* C6: after every hoveringOnRow notification the content view is present in
\* the view container iff the notification was true, repeated notifications
\* included; the view is created at most once, re-inserted on later hovers,
\* detached but not destroyed on un-hover, and destroyed only by ngOnDestroy.
C6_HoverViewPresence ==
  /\ lastOp.op = "hoveringOnRow" =>
       /\ (hover.entries > 0) <=> lastOp.arg
       /\ hover.rendered <=> lastOp.arg
       /\ ~Has(hover.calls, "destroy")
  /\ hover.created <= 1
  /\ hover.viewDestroyed => hover.destroyed

\* The row an element lies in (itself for a row), or NullEl.
EnclosingRow(el) ==
  IF el[1] \in {"row", "cell", "inner"} THEN <<"row", el[2]>> ELSE NullEl

IsMouseOver == lastOp'.op = "tableEvent" /\ lastOp'.arg.type = "mouseover"

\* C11: a mousemove reaches the mouseMove stream only if no further mousemove
\* came within the 30 ms delay after it: a mousemove delivers nothing by itself
\* and replaces the one still held, and what is delivered is the closest row
\* of the last mousemove, by the timer no sooner than 30 ms after it (or when
\* the stream completes on destroy); a mouseover delivers its closest row to
\* hovering at once.
C11_MouseMoveDebounced ==
  [][/\ lastOp'.op = "mousemove" =>
          /\ emitted' = <<>>
          /\ editable.listening =>
               (editable'.pendingMove = lastOp'.arg /\ editable'.sinceMove = 0)
     /\ (\E i \in 1 .. Len(emitted') : emitted'[i][1] = "mouseMove") =>
          /\ editable.pendingMove # NoEvent
          /\ emitted' = <<<<"mouseMove", EnclosingRow(editable.pendingMove.target)>>>>
          /\ editable'.pendingMove = NoEvent
          /\ \/ lastOp'.op = "debounce" /\
                  editable.sinceMove >= DEFAULT_MOUSE_MOVE_DELAY_MS
             \/ lastOp'.op = "tableNgOnDestroy"
     /\ (IsMouseOver /\ editable.listening) =>
          /\ emitted' = <<<<"hovering", EnclosingRow(lastOp'.arg.target)>>>>
          /\ editable'.pendingMove = editable.pendingMove
          /\ editable'.sinceMove = editable.sinceMove]_vars

C11_Witness ==
  /\ lastOp.op = "debounce"
  /\ emitted = <<<<"mouseMove", Row(1)>>>>
  /\ editable.listening
  /\ editable.pendingMove = NoEvent

\* C2: after every open/close notification delivered to the directive, the
\* overlay is attached exactly when that notification was open = true with a
\* non-null template (an open creates and attaches, a close detaches).
C2_AttachedIffLastOpen ==
  lastOp.op = "editingCell" => (pe.attached <=> (lastOp.arg /\ pe.template))

\* C3: an open notification with a null template creates no overlay and
\* attaches no portal; a close notification before any overlay exists changes
\* nothing (no focus change, no detach).
C3_NullGuards ==
  [][lastOp'.op = "editingCell" =>
       /\ (lastOp'.arg /\ ~pe.template) =>
            /\ pe'.created = pe.created
            /\ ~Has(pe'.calls, "create")
            /\ ~Has(pe'.calls, "attach")
       /\ (~lastOp'.arg /\ ~pe.overlayRef) =>
            /\ pe' = Fresh(pe)
            /\ ~Has(pe'.calls, "detach")
            /\ ~Has(pe'.calls, "focusCell")]_vars

C3_Witness ==
  /\ lastOp.op = "editingCell"
  /\ lastOp.arg
  /\ ~pe.template
  /\ ~pe.overlayRef
  /\ pe.viewInit

\* C5: with colspan {before: b, after: a}, not both zero, and the range inside
\* the row, the overlay cells are exactly the indices i-b .. i+a in row order;
\* with both absent or zero they are the single origin cell.
C5_OverlayCellsInRange ==
  LET b == OrZero(pe.colspan, "before")
      a == OrZero(pe.colspan, "after")
  IN /\ (~(b = 0 /\ a = 0) /\ ownIndex - b >= 0 /\ ownIndex + a <= rowLen - 1) =>
          /\ getOverlayCells(pe) = [j \in 1 .. (b + a + 1) |-> ownIndex - b + j - 1]
          /\ pe.overlayRef => pe.position = <<getOverlayCells(pe)>>
     /\ (b = 0 /\ a = 0) => getOverlayCells(pe) = <<ownIndex>>

C5_Witness ==
  /\ OrZero(pe.colspan, "before") = 1
  /\ OrZero(pe.colspan, "after") = 1
  /\ ownIndex = 1
  /\ rowLen = 3
  /\ pe.overlayRef
  /\ pe.position = <<<<0, 1, 2>>>>

\* C7: the colspan setter always stores the value; it replaces the position
\* strategy (from the new cell range) iff an overlay exists, recomputes the
\* size iff that overlay is attached, and otherwise changes only the colspan.
C7_ColspanSetterFrame ==
  [][lastOp'.op = "colspan" =>
       /\ pe'.colspan = lastOp'.arg
       /\ Has(pe'.calls, "updatePositionStrategy") <=> pe.overlayRef
       /\ pe.overlayRef => pe'.position = <<getOverlayCells(pe')>>
       /\ ~pe.overlayRef => pe'.position = pe.position
       /\ Has(pe'.calls, "updateSize") <=> pe.attached
       /\ pe.attached => pe'.size = <<getOverlayCells(pe')>>
       /\ ~pe.attached => pe'.size = pe.size
       /\ ~pe.overlayRef => pe' = [Fresh(pe) EXCEPT !.colspan = lastOp'.arg]
       /\ [pe' EXCEPT !.calls = <<>>, !.colspan = pe.colspan,
                      !.position = pe.position, !.size = pe.size] = Fresh(pe)]_vars

C7_Witness ==
  /\ lastOp.op = "colspan"
  /\ pe.overlayRef
  /\ ~pe.attached
  /\ pe.calls = <<"updatePositionStrategy">>
  /\ pe.position # pe.size

\* C8: showing the overlay updates its size once at once; every scroll or
\* viewport change updates it once while the overlay is attached, and not at
\* all after it was detached or the directive destroyed.
C8_SizeUpdates ==
  [][/\ (lastOp'.op = "editingCell" /\ ~pe.attached /\ pe'.attached) =>
          Count(pe'.calls, "updateSize") = 1
     /\ lastOp'.op = "scroll" =>
          Count(pe'.calls, "updateSize") =
            (IF pe.attached /\ ~pe.destroyed THEN 1 ELSE 0)]_vars

C8_Witness ==
  /\ lastOp.op = "scroll"
  /\ pe.created = 1
  /\ pe.attached
  /\ pe.calls = <<"updateSize">>

\* C9: on a close notification with an overlay present, the cell is focused iff
\* the active element is inside this directive's own pane, decided before the
\* detach; a focus elsewhere is left where it is.
C9_FocusReturn ==
  [][(lastOp'.op = "editingCell" /\ ~lastOp'.arg /\ pe.overlayRef) =>
       /\ Has(pe'.calls, "detach")
       /\ FocusInOwnPane(pe) =>
            /\ pe'.activeElement = PopoverElement
            /\ Before(pe'.calls, "focusCell", "detach")
       /\ ~FocusInOwnPane(pe) =>
            /\ pe'.activeElement = pe.activeElement
            /\ ~Has(pe'.calls, "focusCell")]_vars

C9_Witness ==
  /\ lastOp.op = "editingCell"
  /\ ~lastOp.arg
  /\ pe.calls = <<"focusCell", "detach", "doneEditingCell">>
  /\ pe.activeElement = PopoverElement

\* C10: every successful attach in _showEditOverlay is followed by the focus
\* trap being asked to focus its initial element, and a focus trap exists
\* exactly when an overlay exists (created right after it, never before).
C10_FocusTrap ==
  /\ pe.focusTrap <=> pe.overlayRef
  /\ Has(pe.calls, "focusTrap.create") => Before(pe.calls, "create", "focusTrap.create")
  /\ (Has(pe.calls, "attach") /\ ~Has(pe.calls, "throw")) =>
       /\ pe.focusTrap
       /\ Before(pe.calls, "attach", "focusInitialElementWhenReady")
       /\ Count(pe.calls, "focusInitialElementWhenReady") = 1

C10_Witness ==
  /\ lastOp.op = "editingCell"
  /\ pe.attached
  /\ pe.calls = <<"attach", "focusInitialElementWhenReady", "updateSize">>

\* C12: for every colspan with before >= 0 and after >= 0, also one reaching
\* past either end of the row, the overlay cells are a non-empty contiguous run
\* of the row's cells that contains the origin, with at most `before` cells
\* ahead of it and at most `after` behind it.
C12_OverlayCellsContainOrigin ==
  LET cells == getOverlayCells(pe)
      b == OrZero(pe.colspan, "before")
      a == OrZero(pe.colspan, "after")
  IN /\ Len(cells) > 0
     /\ \A j \in 1 .. Len(cells) : cells[j] \in 0 .. (rowLen - 1)
     /\ \A j \in 1 .. (Len(cells) - 1) : cells[j + 1] = cells[j] + 1
     /\ \E k \in 1 .. Len(cells) :
          /\ cells[k] = ownIndex
          /\ k - 1 <= b
          /\ Len(cells) - k <= a

\* C13: from a mouseleave on the table until the next mouseover, the value
\* last delivered to hovering is null, whatever rows were hovered before; a
\* mouseover delivers the closest row of its target, null when it is in no row.
C13_HoveringAfterLeave ==
  /\ editable.lastMouse = "mouseleave" => editable.hovering = NullEl
  /\ (lastOp.op = "tableEvent" /\ lastOp.arg.type = "mouseover"
        /\ editable.listening) =>
       /\ emitted = <<<<"hovering", EnclosingRow(lastOp.arg.target)>>>>
       /\ editable.hovering = EnclosingRow(lastOp.arg.target)

C13_Witness ==
  /\ editable.lastMouse = "mouseleave"
  /\ editable.hovering = NullEl
  /\ lastOp.op = "mousemove"
  /\ editable.listening

\* C14: every detachment of the overlay (close notification, disposal by the
\* overlay service, disposal in ngOnDestroy while attached) makes exactly one
\* doneEditingCell call, nothing else makes one, and the detachment listener is
\* registered once per overlay, when it is created.
C14_DoneEditingPerDetach ==
  [][/\ Count(pe'.calls, "doneEditingCell") =
          (IF pe.attached /\ ~pe'.attached THEN 1 ELSE 0)
     /\ pe'.detachListeners =
          (IF pe'.overlayRef /\ ~pe'.disposed THEN 1 ELSE 0)
     /\ pe'.detachListeners > pe.detachListeners => Has(pe'.calls, "create")]_vars

C14_Witness ==
  /\ lastOp.op = "ngOnDestroy"
  /\ pe.calls = <<"dispose", "doneEditingCell">>
  /\ pe.created = 1

\* C15: the overlay is created at most once in the directive's life: the first
\* successful open creates it, and every later open with a template (arriving
\* while the overlay is detached) attaches that same overlay again, with the
\* same focus trap.
C15_CreatedOnceReattached ==
  /\ pe.created <= 1
  /\ [][(lastOp'.op = "editingCell" /\ lastOp'.arg /\ pe.template
            /\ ~pe.attached) =>
          /\ pe.overlayRef => pe'.created = pe.created
          /\ ~pe.overlayRef => pe'.created = 1
          /\ pe'.attached
          /\ pe'.focusTrap]_vars

\* C16: _showEditOverlay never calls attach on an overlay that is attached,
\* also not on two opens in a row; at most one size-update subscription is
\* active, and none while the overlay is detached.
C16_NoDoubleAttach ==
  /\ pe.sizeSubs <= 1
  /\ ~pe.attached => pe.sizeSubs = 0
  /\ [][Has(pe'.calls, "attach") => ~pe.attached]_vars

\* C17: ngOnDestroy disposes the overlay iff one was created; after it no
\* notification from editingCell creates, attaches or detaches an overlay or
\* moves the focus, and no scroll or viewport event updates the size.
C17_DestroyedIsInert ==
  [][/\ lastOp'.op = "ngOnDestroy" =>
          /\ Has(pe'.calls, "dispose") <=> pe.overlayRef
          /\ pe'.destroyed /\ ~pe'.attached /\ pe'.sizeSubs = 0
     /\ (pe.destroyed /\ lastOp'.op \in {"editingCell", "editingCellUnheard", "scroll"}) =>
          pe' = Fresh(pe)]_vars

C17_Witness ==
  /\ pe.destroyed
  /\ pe.overlayRef
  /\ pe.template
  /\ lastOp.op = "editingCellUnheard"
  /\ lastOp.arg
  /\ ~pe.attached

====
